---- MODULE Spec2Model ----
(***************************************************************************)
(* Release ordering of crate.pypi's package index                          *)
(* (crate_project/apps/packages/models.py).                                *)
(*                                                                         *)
(* The state is the Release table, the request threads that save releases  *)
(* and thereby run the post_save receiver version_ordering, and the        *)
(* memoised Package.latest of the long-lived Package objects.              *)
(*                                                                         *)
(* Every database statement is one atomic step: the INSERT/UPDATE of a     *)
(* save, the SELECT that evaluates the receiver's queryset, and each       *)
(* per-release UPDATE of the order column.  Under Spec, SpecSave,         *)
(* SpecLatest and SpecRaise a request runs from its save to its return     *)
(* without another request in between; under SpecConc the steps of two     *)
(* requests interleave freely.  verlib is modelled by a table over the     *)
(* version strings the requests save.                                      *)
(***************************************************************************)
EXTENDS Integers, Sequences, FiniteSets, TLC

\* ---------------------------------------------------------------- bounds
\* The number of Release rows the table grows to.
MaxReleases == 3

Procs == {1, 2}
Packages == {1, 2}
\* The creation times a release is saved with.
Times == {0, 1}

None == "None"
Unset == "unset"
Absent == "absent"
NoInstance == 0
Raised == "raised"

\* ------------------------------------------------- verlib (packages.utils)
\* The version strings the model draws from.
DatedVersions == {"2023-01-dev", "2022-06-dev"}
PlainVersions == {"1.0", "1.0.0", "2.0"}
Versions == DatedVersions \cup PlainVersions
\* A string on which the normalizer fails with an exception.
BrokenVersions == {"\\x00"}

\* verlib.suggest_normalized_version: the normalized string, None when the
\* string cannot be normalized, Raised when the call raises.
suggest_normalized_version(s) ==
    IF s \in PlainVersions THEN s
    ELSE IF s \in BrokenVersions THEN Raised
    ELSE None

\* verlib.NormalizedVersion: the comparison key of a normalized string;
\* trailing zeros of the release number beyond major.minor are dropped.
NormalizedVersion(s) ==
    CASE s = "1.0" -> <<1, 0>>
      [] s = "1.0.0" -> <<1, 0>>
      [] s = "2.0" -> <<2, 0>>

\* Python's tuple comparison a < b (lexicographic).
RECURSIVE KeyLess(_, _)
KeyLess(a, b) ==
    IF b = <<>> THEN FALSE
    ELSE IF a = <<>> THEN TRUE
    ELSE IF Head(a) # Head(b) THEN Head(a) < Head(b)
    ELSE KeyLess(Tail(a), Tail(b))

\* ------------------------------------------------------------------ state
VARIABLES
    table,      \* the Release rows; the primary key is the index
    pc,         \* where each request thread is
    op,         \* the request each thread is serving
    kwargs,     \* the keyword arguments of a post_save, until line 237 has read them
    ordered,    \* the receiver's list dated + versions, as [pk, order read]
    idx,        \* the receiver's loop index i
    writes,     \* the UPDATE statements the receiver issued in this run
    cache,      \* Package._latest_release of each package's Package object
    result,     \* what the thread's read of Package.latest returned
    overlapped  \* a receiver has run while another request was in progress

vars == <<table, pc, op, kwargs, ordered, idx, writes, cache, result, overlapped>>

Pks == 1 .. Len(table)
PksOf(p) == {k \in Pks : table[k].package = p}

NoKwargs == [instance |-> NoInstance, created |-> Absent]

\* The values of Package._latest_release: the attribute is not set, it is
\* None, or it is a Release as it was fetched.
UnsetRelease == [state |-> Unset, pk |-> 0, order |-> 0]
NoneRelease == [state |-> None, pk |-> 0, order |-> 0]
FetchedRelease(k) == [state |-> "release", pk |-> k, order |-> table[k].order]

NoResult == [value |-> UnsetRelease, hit |-> FALSE, package |-> 0]

Init ==
    /\ table = <<>>
    /\ pc = [t \in Procs |-> "idle"]
    /\ op = [t \in Procs |-> "none"]
    /\ kwargs = [t \in Procs |-> NoKwargs]
    /\ ordered = [t \in Procs |-> <<>>]
    /\ idx = [t \in Procs |-> 0]
    /\ writes = [t \in Procs |-> {}]
    /\ cache = [p \in Packages |-> UnsetRelease]
    /\ result = [t \in Procs |-> NoResult]
    /\ overlapped = FALSE

\* ------------------------------------------------------ version_ordering
\* kwargs.get("created", True)
GetCreatedDefaultFalse(k) == IF k.created = Absent THEN "False" ELSE k.created
GetCreated(k) == IF k.created = Absent THEN "True" ELSE k.created

\* if instance is not None and kwargs.get("created", True):
Triggered(k) == k.instance # NoInstance /\ GetCreated(k) = "True"

\* The rows a query over the set of keys S may return, in every order the
\* database may return them in (the queryset has no order_by and Release
\* has no Meta.ordering).
Rows(S) ==
    {[i \in 1 .. Cardinality(S) |->
        [pk |-> f[i], version |-> table[f[i]].version,
         created |-> table[f[i]].created, order |-> table[f[i]].order]] :
     f \in {g \in [1 .. Cardinality(S) -> S] :
                \A i, j \in 1 .. Cardinality(S) : i # j => g[i] # g[j]}}

\* Release.objects.filter(package__pk=instance.package.pk)
FilterAllPackages(p) == Rows(Pks)
Filter(p) == Rows(PksOf(p))

\* The bucket the loop appends a release to.
BucketStrict(release) ==
    LET normalized == suggest_normalized_version(release.version)
    IN  IF normalized \in {Raised, None} THEN Raised ELSE "versions"
Bucket(release) ==
    LET normalized == suggest_normalized_version(release.version)
    IN  IF normalized = Raised THEN Raised
        ELSE IF normalized # None THEN "versions" ELSE "dated"

InBucket(releases, b) == SelectSeq(releases, LAMBDA r : Bucket(r) = b)

\* list.sort(key=...): a stable sort, ascending by key.  Each element is
\* inserted behind every element whose key is not greater than its own.
RECURSIVE Insert(_, _)
Insert(sorted, x) ==
    IF sorted = <<>> THEN <<x>>
    ELSE IF KeyLess(x.key, Head(sorted).key) THEN <<x>> \o sorted
    ELSE <<Head(sorted)>> \o Insert(Tail(sorted), x)

RECURSIVE InsertAll(_, _)
InsertAll(sorted, rest) ==
    IF rest = <<>> THEN sorted
    ELSE InsertAll(Insert(sorted, Head(rest)), Tail(rest))

Reverse(s) == [i \in 1 .. Len(s) |-> s[Len(s) + 1 - i]]

ListSort(keyed) ==
    LET sorted == InsertAll(<<>>, keyed)
    IN  [i \in 1 .. Len(sorted) |-> sorted[i].item]

\* versions.sort(key=lambda x: NormalizedVersion(suggest_normalized_version(x.version)))
SortVersionsDescending(versions) ==
    Reverse(ListSort([i \in 1 .. Len(versions) |->
        [key |-> NormalizedVersion(suggest_normalized_version(versions[i].version)),
         item |-> versions[i]]]))
SortVersions(versions) ==
    ListSort([i \in 1 .. Len(versions) |->
        [key |-> NormalizedVersion(suggest_normalized_version(versions[i].version)),
         item |-> versions[i]]])

\* dated.sort(key=lambda x: x.created)
SortDatedByVersion(dated) ==
    ListSort([i \in 1 .. Len(dated) |->
        [key |-> IF dated[i].version = "2022-06-dev" THEN <<0>> ELSE <<1>>,
         item |-> dated[i]]])
SortDated(dated) ==
    ListSort([i \in 1 .. Len(dated) |->
        [key |-> <<dated[i].created>>, item |-> dated[i]]])

\* dated + versions
ConcatVersionsFirst(dated, versions) == versions \o dated
Concat(dated, versions) == dated \o versions

\* enumerate(...): the index i of the j-th element, counting j from 1.
EnumerateFromOne(j) == j
Enumerate(j) == j - 1

\* if release.order != i:
NeedsUpdateAlways(release, i) == TRUE
NeedsUpdate(release, i) == release.order # i

\* Lines 239-250: the list the final loop enumerates.
Ordering(releases) ==
    Concat(SortDated(InBucket(releases, "dated")),
           SortVersions(InBucket(releases, "versions")))

Raises(releases) == \E i \in 1 .. Len(releases) : Bucket(releases[i]) = Raised

\* --------------------------------------------------------------- requests
MayStart(t) == pc[t] = "idle"

Receiving == {u \in Procs : pc[u] \in {"hook", "write"}}

\* post_save.send(sender=Release, **k) reaching version_ordering in thread t.
Deliver(t, k, o) ==
    /\ op' = [op EXCEPT ![t] = o]
    /\ kwargs' = [kwargs EXCEPT ![t] = k]
    /\ pc' = [pc EXCEPT ![t] = IF Triggered(k) THEN "hook" ELSE "skipped"]
    /\ overlapped' = (overlapped \/ (Triggered(k) /\ Receiving \ {t} # {}))
    /\ UNCHANGED <<ordered, idx, writes, cache, result>>

\* Release(package=p, version=v, created=c).save(): the INSERT (order takes
\* its default 0), then post_save with created=True.
CreateRelease(t, p, v, c) ==
    /\ MayStart(t)
    /\ Len(table) < MaxReleases
    /\ \A k \in PksOf(p) : table[k].version # v
    /\ table' = Append(table, [package |-> p, version |-> v, created |-> c, order |-> 0])
    /\ Deliver(t, [instance |-> Len(table) + 1, created |-> "True"], "create")

\* save() of the existing release k with its version changed to v: the
\* UPDATE, then post_save with created=False.
UpdateRelease(t, k, v) ==
    /\ MayStart(t)
    /\ k \in Pks
    /\ \A j \in PksOf(table[k].package) : table[j].version # v
    /\ table' = [table EXCEPT ![k].version = v]
    /\ Deliver(t, [instance |-> k, created |-> "False"], "update")

\* A post_save sent for Release without a save: any instance or none, and
\* created True, False or left out.
SendPostSave(t, inst, created) ==
    /\ MayStart(t)
    /\ inst \in Pks \cup {NoInstance}
    /\ table' = table
    /\ Deliver(t, [instance |-> inst, created |-> created], "send")

\* Lines 237-250: the queryset is evaluated by the first loop (one SELECT),
\* the releases are bucketed and the buckets sorted.  An exception of the
\* normalizer leaves the receiver.
HookRead(t) ==
    /\ pc[t] = "hook"
    /\ \E releases \in Filter(table[kwargs[t].instance].package) :
          IF Raises(releases)
          THEN /\ pc' = [pc EXCEPT ![t] = Raised]
               /\ UNCHANGED <<ordered, kwargs>>
          ELSE /\ pc' = [pc EXCEPT ![t] = "write"]
               /\ kwargs' = [kwargs EXCEPT ![t] = NoKwargs]
               /\ ordered' = [ordered EXCEPT ![t] =
                     LET l == Ordering(releases)
                     IN  [j \in 1 .. Len(l) |-> [pk |-> l[j].pk, order |-> l[j].order]]]
    /\ idx' = [idx EXCEPT ![t] = 0]
    /\ writes' = [writes EXCEPT ![t] = {}]
    /\ UNCHANGED <<table, op, cache, result, overlapped>>

\* Lines 252-254: one iteration of the final loop.
HookWrite(t) ==
    /\ pc[t] = "write"
    /\ LET j == idx[t] + 1
           release == ordered[t][j]
           i == Enumerate(j)
       IN  /\ IF NeedsUpdate(release, i)
              THEN /\ table' = [table EXCEPT ![release.pk].order = i]
                   /\ writes' = [writes EXCEPT ![t] = @ \cup {[pk |-> release.pk, order |-> i]}]
              ELSE UNCHANGED <<table, writes>>
           /\ idx' = [idx EXCEPT ![t] = j]
           /\ pc' = [pc EXCEPT ![t] = IF j = Len(ordered[t]) THEN "done" ELSE "write"]
    /\ UNCHANGED <<op, kwargs, ordered, cache, result, overlapped>>

\* The request ends.
Return(t) ==
    /\ pc[t] \in {"done", "skipped", Raised, "latest"}
    /\ pc' = [pc EXCEPT ![t] = "idle"]
    /\ op' = [op EXCEPT ![t] = "none"]
    /\ kwargs' = [kwargs EXCEPT ![t] = NoKwargs]
    /\ ordered' = [ordered EXCEPT ![t] = <<>>]
    /\ idx' = [idx EXCEPT ![t] = 0]
    /\ writes' = [writes EXCEPT ![t] = {}]
    /\ result' = [result EXCEPT ![t] = NoResult]
    /\ UNCHANGED <<table, cache, overlapped>>

\* --------------------------------------------------------- Package.latest
\* self.releases.order_by("-order")[:1]: a release of the package with the
\* greatest order (any one of them when several share it), or nothing.
FirstByOrderAscending(p) ==
    IF PksOf(p) = {} THEN {NoneRelease}
    ELSE {FetchedRelease(k) : k \in {j \in PksOf(p) :
              \A m \in PksOf(p) : table[m].order >= table[j].order}}
FirstByOrderDescending(p) ==
    IF PksOf(p) = {} THEN {NoneRelease}
    ELSE {FetchedRelease(k) : k \in {j \in PksOf(p) :
              \A m \in PksOf(p) : table[m].order <= table[j].order}}

\* Thread t reads package.latest on the Package object of p.
Latest(t, p) ==
    /\ MayStart(t)
    /\ IF cache[p] = UnsetRelease
       THEN \E r \in FirstByOrderDescending(p) :
               /\ cache' = [cache EXCEPT ![p] = r]
               /\ result' = [result EXCEPT ![t] = [value |-> r, hit |-> FALSE, package |-> p]]
       ELSE /\ result' = [result EXCEPT ![t] = [value |-> cache[p], hit |-> TRUE, package |-> p]]
            /\ UNCHANGED cache
    /\ pc' = [pc EXCEPT ![t] = "latest"]
    /\ op' = [op EXCEPT ![t] = "latest"]
    /\ UNCHANGED <<table, kwargs, ordered, idx, writes, overlapped>>

\* The Package object of p is fetched anew (Package.objects.get): the new
\* object has no _latest_release attribute.
FetchPackage(p) ==
    /\ \A u \in Procs : pc[u] = "idle"
    /\ cache[p] # UnsetRelease
    /\ cache' = [cache EXCEPT ![p] = UnsetRelease]
    /\ UNCHANGED <<table, pc, op, kwargs, ordered, idx, writes, result, overlapped>>

\* ----------------------------------------------------------- specifications
Created == {"True", "False", Absent}

\* The version strings saved to each package: every one to the first, a
\* dated and a plain one to the others.
VersionsOf(p) ==
    IF p = 1 THEN Versions \cup BrokenVersions ELSE {"2023-01-dev", "1.0"}

\* The requests of the threads ts on the packages ps, saving version
\* strings drawn from vs.
Create(ts, ps, vs) ==
    \E t \in ts, p \in ps, c \in Times :
        \E v \in vs \cap VersionsOf(p) : CreateRelease(t, p, v, c)
Update(ts, vs) ==
    \E t \in ts, k \in Pks :
        \E v \in vs \cap VersionsOf(table[k].package) : UpdateRelease(t, k, v)
Send(ts) ==
    \E t \in ts, inst \in Pks \cup {NoInstance}, created \in Created :
        SendPostSave(t, inst, created)
Read == \E t \in Procs : HookRead(t)
Write == \E t \in Procs : HookWrite(t)
Finish == \E t \in Procs : Return(t)
ReadLatest(ts) == \E t \in ts, p \in Packages : Latest(t, p)
Refetch == \E p \in Packages : FetchPackage(p)

\* One request at a time: a single thread serves every request.
Serial == {1}

\* Releases are created and post_save is sent.
Next ==
    \/ Create(Serial, Packages, Versions)
    \/ Send(Serial)
    \/ Read
    \/ Write
    \/ Finish

Spec == Init /\ [][Next]_vars

\* Releases are created and saved again with another version.
NextSave ==
    \/ Create(Serial, Packages, Versions)
    \/ Update(Serial, PlainVersions)
    \/ Send(Serial)
    \/ Read
    \/ Write
    \/ Finish

SpecSave == Init /\ [][NextSave]_vars

\* Releases are created and Package.latest is read.
NextLatest ==
    \/ Create(Serial, Packages, Versions)
    \/ Read
    \/ Write
    \/ Finish
    \/ ReadLatest(Serial)
    \/ Refetch

SpecLatest == Init /\ [][NextLatest]_vars

\* The requests of two threads creating releases of one package interleave
\* statement by statement.
NextConc ==
    \/ Create(Procs, {1}, {"2023-01-dev", "1.0", "1.0.0", "2.0"})
    \/ Read
    \/ Write
    \/ Finish

SpecConc == Init /\ [][NextConc]_vars

\* One request at a time, with version strings the normalizer fails on.
NextRaise ==
    \/ Create(Serial, Packages, Versions \cup BrokenVersions)
    \/ Send(Serial)
    \/ Read
    \/ Write
    \/ Finish

SpecRaise == Init /\ [][NextRaise]_vars

\* ------------------------------------------------------------- properties
\* The package whose releases the completed run of thread t has ordered.
RunPackage(t) == table[ordered[t][1].pk].package

Completed(t) == pc[t] = "done"

Normalizable(k) == suggest_normalized_version(table[k].version) \notin {None, Raised}
Dated(k) == suggest_normalized_version(table[k].version) = None
Key(k) == NormalizedVersion(suggest_normalized_version(table[k].version))

OrdersOf(p) == {table[k].order : k \in PksOf(p)}
VersionsIn(p) == {table[k].version : k \in PksOf(p)}
ReleaseOf(p, v) == CHOOSE k \in PksOf(p) : table[k].version = v

ContiguousOrders(p) ==
    /\ OrdersOf(p) = 0 .. (Cardinality(PksOf(p)) - 1)
    /\ \A j, k \in PksOf(p) : j # k => table[j].order # table[k].order

\* C1: when a run of version_ordering has completed, with no other run in
\* between, the orders of the package's N releases are exactly 0..N-1, each
\* used once.
C1_OrdersContiguous ==
    \A t \in Procs : Completed(t) => ContiguousOrders(RunPackage(t))

\* A run over three releases that had to write has completed.
C1_Witness ==
    /\ Completed(1)
    /\ op[1] = "create"
    /\ Cardinality(PksOf(RunPackage(1))) = 3
    /\ writes[1] # {}

\* C2: when a run has completed, every release whose version cannot be
\* normalized has a smaller order than every release whose version can; for
\* the versions "2023-01-dev", "1.0", "2.0" the orders are 0, 1, 2.
C2_DatedFirst ==
    \A t \in Procs : Completed(t) =>
        LET p == RunPackage(t)
        IN  /\ \A r, s \in PksOf(p) :
                  Dated(r) /\ Normalizable(s) => table[r].order < table[s].order
            /\ VersionsIn(p) = {"2023-01-dev", "1.0", "2.0"} =>
                  /\ table[ReleaseOf(p, "2023-01-dev")].order = 0
                  /\ table[ReleaseOf(p, "1.0")].order = 1
                  /\ table[ReleaseOf(p, "2.0")].order = 2

\* The example's package, its dated release saved last, has been ordered.
C2_Witness ==
    /\ Completed(1)
    /\ VersionsIn(RunPackage(1)) = {"2023-01-dev", "1.0", "2.0"}
    /\ table[Len(table)].version = "2023-01-dev"
    /\ table[Len(table)].package = RunPackage(1)

\* C3: when a run has completed, two releases with normalizable versions of
\* which the first has the smaller order have normalized versions of which
\* the first is not the greater.
C3_VersionsAscending ==
    \A t \in Procs : Completed(t) =>
        \A r, s \in PksOf(RunPackage(t)) :
            Normalizable(r) /\ Normalizable(s) /\ table[r].order < table[s].order
                => ~KeyLess(Key(s), Key(r))

\* "2.0" was saved before "1.0" and "1.0.0", and the run has completed.
C3_Witness ==
    /\ Completed(1)
    /\ Len(table) = 3
    /\ \A k \in Pks : table[k].package = 1
    /\ table[1].version = "2.0"
    /\ {table[2].version, table[3].version} = {"1.0", "1.0.0"}

\* C4: a run on a package to which no release was added since the previous
\* run leaves every order unchanged.  Under Spec every run a sent post_save
\* starts is such a run, and it leaves the orders unchanged iff it issues no
\* UPDATE.
C4_Idempotent ==
    \A t \in Procs : op[t] = "send" => writes[t] = {}

\* C9: when a run has completed, two dated releases of which the first has
\* the smaller order have creation times of which the first is not the later.
C9_DatedByCreation ==
    \A t \in Procs : Completed(t) =>
        \A r, s \in PksOf(RunPackage(t)) :
            Dated(r) /\ Dated(s) /\ table[r].order < table[s].order
                => table[r].created <= table[s].created

\* Two dated releases, the one with the later version string created
\* earlier and saved last, have been ordered.
C9_Witness ==
    /\ Completed(1)
    /\ Len(table) = 2
    /\ table[1] = [package |-> 1, version |-> "2022-06-dev", created |-> 1, order |-> 1]
    /\ table[2] = [package |-> 1, version |-> "2023-01-dev", created |-> 0, order |-> 0]

\* Release value v is a release of package p with the greatest order in the
\* table, or None when p has no release.
Highest(v, p) ==
    IF PksOf(p) = {} THEN v = NoneRelease
    ELSE /\ v.state = "release"
         /\ v.pk \in PksOf(p)
         /\ \A k \in PksOf(p) : table[k].order <= table[v.pk].order

\* C5 as stated: every read of Package.latest returns the release of the
\* package with the greatest order at the time of the read, None when the
\* package has none, also through a Package object that evaluated latest
\* before.
C5_LatestAtEveryRead ==
    \A t \in Procs : pc[t] = "latest" => Highest(result[t].value, result[t].package)

\* C5 as amended: a read of Package.latest that finds no _latest_release on
\* the object returns the release with the greatest order at that time (None
\* without releases) and stores it; every later read through the object
\* returns the stored release, whatever has been created since.
C5_LatestMemoised ==
    /\ [](\A t \in Procs : pc[t] = "latest" =>
            /\ result[t].value = cache[result[t].package]
            /\ ~result[t].hit => Highest(result[t].value, result[t].package))
    /\ [][\A p \in Packages :
            cache[p] # UnsetRelease /\ cache'[p] # UnsetRelease => cache'[p] = cache[p]]_vars

\* A read through an object that had evaluated latest returns a release
\* that no longer has the greatest order.
C5_Witness ==
    /\ pc[1] = "latest"
    /\ result[1].hit
    /\ result[1].value.state = "release"
    /\ ~Highest(result[1].value, result[1].package)

HasBroken(p) == \E k \in PksOf(p) : suggest_normalized_version(table[k].version) = Raised
NumDated(p) == Cardinality({k \in PksOf(p) : Dated(k)})

\* C6 as stated: a release whose normalization raises or returns no result
\* is put with the dated ones, the run completes and orders every release;
\* no error leaves the receiver.
C6_NoErrorEscapes ==
    \A t \in Procs :
        /\ pc[t] # Raised
        /\ Completed(t) =>
              /\ ContiguousOrders(RunPackage(t))
              /\ \A k \in PksOf(RunPackage(t)) :
                    ~Normalizable(k) => table[k].order < NumDated(RunPackage(t))

\* C6 as amended: a release whose normalization returns no result is put
\* with the dated ones, and the run completes and orders every release; a
\* normalization that raises is not caught: the exception leaves the
\* receiver before any order is written, and only then does a run fail.
C6_NoneIsDated ==
    \A t \in Procs :
        /\ Completed(t) =>
              /\ ~HasBroken(RunPackage(t))
              /\ ContiguousOrders(RunPackage(t))
              /\ \A k \in PksOf(RunPackage(t)) :
                    Dated(k) => table[k].order < NumDated(RunPackage(t))
        /\ pc[t] = Raised =>
              /\ writes[t] = {}
              /\ HasBroken(table[kwargs[t].instance].package)

\* A run over a dated and a later-saved plain release has completed.
C6_Witness ==
    /\ Completed(1)
    /\ Len(table) >= 2
    /\ table[1].package = RunPackage(1) /\ ~Dated(1)
    /\ table[2].package = RunPackage(1) /\ Dated(2)

\* C7: a run issues an UPDATE for a release iff the order it read for the
\* release differs from the release's new position, the UPDATE sets that
\* position, and nothing but order columns changes while the run writes.
C7_WritesOnlyChanged ==
    /\ [](\A t \in Procs : pc[t] \in {"write", "done"} =>
            writes[t] = {[pk |-> ordered[t][j].pk, order |-> j - 1] :
                            j \in {i \in 1 .. idx[t] : ordered[t][i].order # i - 1}})
    /\ [][(\E t \in Procs : pc[t] = "write") =>
            /\ Len(table') = Len(table)
            /\ \A k \in Pks : table'[k] = [table[k] EXCEPT !.order = table'[k].order]
            /\ \A k \in Pks : table'[k].order # table[k].order =>
                  \E t \in Procs : [pk |-> k, order |-> table'[k].order]
                                      \in writes'[t] \ writes[t]]_vars

\* A completed run wrote some releases and left others unwritten.
C7_Witness ==
    /\ Completed(1)
    /\ writes[1] # {}
    /\ Cardinality(writes[1]) < Len(ordered[1]) - 1

Quiet == \A t \in Procs : pc[t] \in {"idle", "done"}

\* C8: interleaved runs for one package can end with orders that have a
\* duplicate or are not 0..N-1 (C8_Witness is such an end), and only
\* interleaved runs do: when no run is in progress and the orders are not
\* 0..N-1 without duplicates, a run has started while another was under way.
C8_OnlyInterleavingBreaksOrders ==
    \A p \in Packages : (Quiet /\ ~ContiguousOrders(p)) => overlapped

\* Every run has completed and two releases share an order, in a package
\* whose versions leave the sorts no choice.
C8_Witness ==
    /\ Quiet
    /\ VersionsIn(1) = {"2023-01-dev", "1.0", "2.0"}
    /\ \E j, k \in PksOf(1) : j # k /\ table[j].order = table[k].order

Orders == [k \in Pks |-> table[k].order]

\* C10: a post_save with created=False or without an instance starts no run
\* and changes no order; one with an instance and created=True or without
\* created starts a run, which on completion has given every release of the
\* instance's package its position.
C10_OnlyOnCreation ==
    /\ [](\A t \in Procs :
            /\ pc[t] = "skipped" =>
                  kwargs[t].instance = NoInstance \/ kwargs[t].created = "False"
            /\ pc[t] = "hook" =>
                  kwargs[t].instance # NoInstance /\ kwargs[t].created \in {"True", Absent}
            /\ Completed(t) =>
                  /\ {ordered[t][j].pk : j \in 1 .. Len(ordered[t])} = PksOf(RunPackage(t))
                  /\ \A j \in 1 .. Len(ordered[t]) : table[ordered[t][j].pk].order = j - 1)
    /\ [][\A t \in Procs : pc'[t] = "skipped" => Orders' = Orders]_vars

\* A post_save sent without a save has rerun the ordering and moved releases
\* whose versions had been changed by saves that reordered nothing.
C10_Witness ==
    /\ Completed(1)
    /\ op[1] = "send"
    /\ \E j, k \in PksOf(RunPackage(1)) :
          /\ KeyLess(<<table[j].created>>, <<table[k].created>>)
          /\ Normalizable(j) /\ Normalizable(k)
          /\ KeyLess(Key(j), Key(k))
          /\ [pk |-> j, order |-> 0] \in writes[1]
====
